---- MODULE Spec2Model ----
(***************************************************************************)
(* Model of custom_components/xiaomi_gateway3/gateway3.py: the worker      *)
(* thread Gateway3.run (bootstrap and steady-state reconciliation loop),   *)
(* the MQTT callbacks on_disconnect / on_message, process_message,         *)
(* setup_devices, add_update, add_setup and send.                          *)
(*                                                                         *)
(* Strings that the code builds by concatenation are modelled by finite    *)
(* tables (Prefix0x, SiidPiid).  Numbers are kept in hundredths            *)
(* (fixed point), so that the integer 2350 is n = 235000 and 2350 / 100.0  *)
(* is n = 2350.                                                            *)
(***************************************************************************)
EXTENDS Integers, Sequences, FiniteSets, TLC

\* ------------------------------------------------------------------ bounds
MaxParams == 2      \* longest parameter list of an inbound bus message
MaxHandlers == 2    \* most update handlers subscribed to one device id
MaxSpecLen == 2     \* longest parameterSpec drawn for the name round trip

\* ------------------------------------------------------------- primitives
None == "None"

Num(i) == [kind |-> "num", n |-> 100 * i]     \* the Python int i
Str(s) == [kind |-> s, n |-> 0]               \* the Python str s
Dev(i) == [kind |-> "dev", n |-> i]           \* the dict NewDevices[i]
NoneVal == [kind |-> "none", n |-> 0]         \* the Python None

Min2(a, b) == IF a < b THEN a ELSE b

\* Python round(a / b) for integers a and b > 0: round half to even
PyRoundDiv(a, b) ==
    LET q == a \div b
        r == a - q * b
    IN  IF 2 * r < b THEN q
        ELSE IF 2 * r > b THEN q + 1
        ELSE IF q % 2 = 0 THEN q ELSE q + 1

\* v / 100.0
Div100(v) == [kind |-> "num", n |-> v.n \div 100]

\* round((min(v, 3200) - 2500) / 7)
BatteryPercent(v) ==
    [kind |-> "num", n |-> 100 * PyRoundDiv(Min2(v.n, 320000) - 250000, 700)]

\* f with key k set to v (dict assignment)
Put(f, k, v) == [x \in (DOMAIN f) \cup {k} |-> IF x = k THEN v ELSE f[x]]

EmptyDict == [x \in {} |-> NoneVal]

\* '0x' + mac
Prefix0x(mac) ==
    CASE mac = "158d0001" -> "0x158d0001"
      [] mac = "158d0002" -> "0x158d0002"
      [] mac = "158d0003" -> "0x158d0003"
      [] OTHER -> "0x"

\* f"{siid}.{piid}"
SiidPiid(siid, piid) ==
    CASE siid = 2 /\ piid = 1 -> "2.1"
      [] siid = 3 /\ piid = 1 -> "3.1"
      [] OTHER -> "0.0"

\* ------------------------------------------------- utils (external catalog)
\* parameterSpec entries are <<wireName, hubPropertyKey, canonicalName, domain>>;
\* get_device returns None for an unknown model: found = FALSE
GLOBAL_PROP ==
    [w \in {"8.0.2008"} |-> "voltage"]

get_device(model) ==
    CASE model = "lumi.gateway.mgl03" ->
            [found |-> TRUE, device_name |-> "Gateway 3",
             params |-> << <<"8.0.2084", None, "added_device", None>> >>]
      [] model = "lumi.sensor_ht" ->
            [found |-> TRUE, device_name |-> "TH Sensor",
             params |-> << <<"0.1.85", "temperature", "temperature", "sensor">>,
                           <<"2.1", "humidity", "humidity", "sensor">>,
                           <<"8.0.2001", "battery", "battery", "sensor">> >>]
      [] model = "lumi.plug" ->
            [found |-> TRUE, device_name |-> "Plug",
             params |-> << <<"4.1.85", "neutral_0", "switch", "switch">> >>]
      [] OTHER -> [found |-> FALSE, device_name |-> None, params |-> <<>>]

\* devices the hub announces through an added_device entry
NewDevices ==
    << [did |-> "lumi.2", mac |-> "158d0002", model |-> "lumi.sensor_ht"],
       [did |-> "lumi.3", mac |-> "158d0003", model |-> "lumi.unknown"] >>

\* parse_xiaomi_ble(event): the measurements of an advertisement as
\* <<name, value>> pairs in the order of the mapping's keys; None for an
\* event it does not know: found = FALSE
parse_xiaomi_ble(event) ==
    CASE event = "temperature" ->
            [found |-> TRUE, payload |-> << <<"temperature", Num(21)>> >>]
      [] event = "rssi_temperature" ->
            [found |-> TRUE, payload |-> << <<"rssi", Num(-60)>>,
                                             <<"temperature", Num(22)>> >>]
      [] OTHER -> [found |-> FALSE, payload |-> <<>>]

\* get_ble_domain(name): the domain of a Bluetooth property, None for a
\* property that has no entity
get_ble_domain(k) ==
    IF k \in {"temperature", "humidity", "battery"} THEN "sensor" ELSE None


\* --------------------------------------------------------- name resolution
RECURSIVE FirstByWire(_, _)
\* next((p[2] for p in params if p[0] == prop), prop)
FirstByWire(params, prop) ==
    IF params = <<>> THEN prop
    ELSE IF Head(params)[1] = prop THEN Head(params)[3]
    ELSE FirstByWire(Tail(params), prop)

\* param['res_name'] if 'res_name' in param else f"{siid}.{piid}"
WireName(param) ==
    IF param.res_name # None THEN param.res_name
    ELSE SiidPiid(param.siid, param.piid)

\* GLOBAL_PROP first, else the device's parameterSpec, else the raw name
ResolveProp(params, prop) ==
    IF prop \in DOMAIN GLOBAL_PROP THEN GLOBAL_PROP[prop]
    ELSE FirstByWire(params, prop)

\* param.get('error_code', 0)
ErrorCode(param) ==
    IF param.error_code = <<>> THEN 0 ELSE param.error_code[1]

SkipsParamNever(param) == FALSE

\* if param.get('error_code', 0) != 0: continue
SkipsParam(param) == ErrorCode(param) # 0

\* the value stored in the payload for prop; TypeError when the arithmetic
\* or the comparison is applied to a value that is not a number
FixValue(prop, value) ==
    IF prop \in {"temperature", "humidity"}
    THEN IF value.kind = "num" THEN Div100(value) ELSE Str("TypeError")
    ELSE IF prop = "battery"
    THEN IF value.kind # "num" THEN Str("TypeError")
         ELSE IF value.n > 1000 * 100 THEN BatteryPercent(value)
         ELSE value
    ELSE value

RECURSIVE ConvertParams(_, _, _)
\* the loop "convert codes to names": the payload, ok = FALSE on an exception
ConvertParams(entries, params, payload) ==
    IF entries = <<>> THEN [ok |-> TRUE, payload |-> payload]
    ELSE LET param == Head(entries)
             prop == ResolveProp(params, WireName(param))
             val == FixValue(prop, param.value)
         IN  IF SkipsParam(param)
             THEN ConvertParams(Tail(entries), params, payload)
             ELSE IF val = Str("TypeError")
             THEN [ok |-> FALSE, payload |-> EmptyDict]
             ELSE ConvertParams(Tail(entries), params, Put(payload, prop, val))

CmdErrorNoAssert(data) ==
    IF data.cmd \in {"heartbeat", "report", "write_rsp"} THEN "" ELSE "TypeError"

\* the check at the head of process_message: "" when the cmd is accepted
CmdError(data) ==
    IF data.cmd = "heartbeat"
    THEN IF data.hb = 1 THEN "" ELSE "AssertionError"
    ELSE IF data.cmd \in {"report", "write_rsp"} THEN ""
    ELSE "TypeError"

\* the key the entries are read from
PKey(data) ==
    IF data.cmd = "heartbeat" THEN "res_list"
    ELSE IF data.cmd = "report"
    THEN IF data.field = "params" THEN "params" ELSE "mi_spec"
    ELSE "results"

HasCallbackAlways(upd, did) == TRUE

\* "skip without callback"
HasCallback(upd, did) == did \in DOMAIN upd

\* process_message up to the dispatch: what it raises, or the payload
ProcessMessage(data, devs, upd) ==
    IF CmdError(data) # ""
    THEN [result |-> CmdError(data), payload |-> EmptyDict]
    ELSE IF ~HasCallback(upd, data.did)
    THEN [result |-> "skipped", payload |-> EmptyDict]
    ELSE IF data.did \notin DOMAIN devs
    THEN [result |-> "KeyError", payload |-> EmptyDict]
    ELSE IF data.field # PKey(data)
    THEN [result |-> "KeyError", payload |-> EmptyDict]
    ELSE LET p == ConvertParams(data.entries, devs[data.did].params, EmptyDict)
         IN  IF ~p.ok
             THEN [result |-> "TypeError", payload |-> EmptyDict]
             ELSE IF data.did \notin DOMAIN upd
             THEN [result |-> "KeyError", payload |-> EmptyDict]
             ELSE [result |-> "dispatched", payload |-> p.payload]

RECURSIVE SendPropHubKey(_, _)
SendPropHubKey(params, param) ==
    IF params = <<>> THEN None
    ELSE IF Head(params)[3] = param THEN Head(params)[2]
    ELSE SendPropHubKey(Tail(params), param)

\* send: the wire name of the first parameterSpec entry named param, or
\* None when next() raises StopIteration
RECURSIVE SendProp(_, _)
SendProp(params, param) ==
    IF params = <<>> THEN None
    ELSE IF Head(params)[3] = param THEN Head(params)[1]
    ELSE SendProp(Tail(params), param)

SendPublishesAlways(prop) == TRUE

\* send: the lines after next() run only when it has returned a wire name
SendPublishes(prop) == prop # None

\* send: the payload of the write command
WriteCommand(did, prop, value) ==
    [cmd |-> "write", did |-> did,
     params |-> << [res_name |-> prop, value |-> value] >>]

\* send: the topic of self.mqtt.publish
SendTopic == "zigbee/recv"

\* ------------------------------------------------ database-strategy discovery
\* a.update(b)
DictUpdate(a, b) ==
    [k \in (DOMAIN a) \cup (DOMAIN b) |-> IF k \in DOMAIN b THEN b[k] ELSE a[k]]

\* retain.get(key)
DictGet(d, key) == IF key \in DOMAIN d THEN d[key] ELSE NoneVal

RECURSIVE RetainParams(_, _, _)
\* {p[2]: retain.get(p[1]) for p in desc['params'] if p[1] is not None}
RetainParams(params, retain, acc) ==
    IF params = <<>> THEN acc
    ELSE LET p == Head(params)
         IN  IF p[2] = None THEN RetainParams(Tail(params), retain, acc)
             ELSE RetainParams(Tail(params), retain,
                               Put(acc, p[3], DictGet(retain, p[2])))

\* "fix some param values" of _get_devices_v3, for one item
FixRetained(k, v) ==
    IF k \in {"temperature", "humidity"}
    THEN IF v.kind = "num" THEN Div100(v) ELSE Str("TypeError")
    ELSE IF v.kind \in {"on", "open"} THEN Num(1)
    ELSE IF v.kind \in {"off", "close"} THEN Num(0)
    ELSE IF k = "battery" /\ v.kind = "num" /\ v.n # 0 /\ v.n > 1000 * 100
    THEN BatteryPercent(v)
    ELSE v

\* the device dict _get_devices_v3 builds for did; ok = FALSE on an exception
V3Device(db, did) ==
    LET desc == get_device(db.model[did])
        raw == RetainParams(desc.params, db.prop[did], EmptyDict)
        fixed == [k \in DOMAIN raw |-> FixRetained(k, raw[k])]
    IN  [ok |-> \A k \in DOMAIN fixed : fixed[k] # Str("TypeError"),
         dev |-> [did |-> did,
                  mac |-> Prefix0x(db.mac[did]),
                  model |-> db.model[did],
                  zb_ver |-> db.version[did],
                  init |-> fixed]]

SkipsModelNever(model) == FALSE

\* if desc is None: continue
SkipsModel(model) == ~get_device(model).found

RECURSIVE V3Devices(_, _)
\* the loop over dev_list: the supported devices in order, ok = FALSE when
\* an exception ends the discovery
V3Devices(db, dids) ==
    IF dids = <<>> THEN [ok |-> TRUE, devices |-> <<>>]
    ELSE LET did == Head(dids)
             rest == V3Devices(db, Tail(dids))
         IN  IF SkipsModel(db.model[did]) THEN rest
             ELSE IF ~V3Device(db, did).ok
             THEN [ok |-> FALSE, devices |-> <<>>]
             ELSE [ok |-> rest.ok,
                   devices |-> IF rest.ok
                               THEN <<V3Device(db, did).dev>> \o rest.devices
                               ELSE <<>>]

\* _get_devices_v3 on a readable database: the hub descriptor first;
\* <<>> stands for the None it returns on an exception
GetDevicesV3(db) ==
    LET r == V3Devices(db, db.dev_list)
    IN  IF ~r.ok THEN <<>>
        ELSE << [did |-> "lumi.0",
                 model |-> "lumi.gateway.mgl03",
                 mac |-> db.hubmac] >> \o r.devices

\* the databases the hub may hold
SensorProps ==
    [k \in {"temperature", "humidity", "battery"} |->
        CASE k = "temperature" -> Num(2350)
          [] k = "humidity" -> Num(4500)
          [] OTHER -> Num(2850)]

DB1 ==
    [dev_list |-> <<"lumi.1">>,
     model |-> [d \in {"lumi.1"} |-> "lumi.sensor_ht"],
     mac |-> [d \in {"lumi.1"} |-> "158d0001"],
     version |-> [d \in {"lumi.1"} |-> "1.2"],
     prop |-> [d \in {"lumi.1"} |-> SensorProps],
     hubmac |-> "0x54ef44"]

\* no device but the hub
DB0 ==
    [dev_list |-> <<>>,
     model |-> [d \in {} |-> ""],
     mac |-> [d \in {} |-> ""],
     version |-> [d \in {} |-> ""],
     prop |-> [d \in {} |-> SensorProps],
     hubmac |-> "0x54ef44"]

\* a device of an unsupported model listed before the sensor
DB2 ==
    [dev_list |-> <<"lumi.3", "lumi.1">>,
     model |-> [d \in {"lumi.1", "lumi.3"} |->
                  IF d = "lumi.1" THEN "lumi.sensor_ht" ELSE "lumi.unknown"],
     mac |-> [d \in {"lumi.1", "lumi.3"} |->
                  IF d = "lumi.1" THEN "158d0001" ELSE "158d0003"],
     version |-> [d \in {"lumi.1", "lumi.3"} |-> "1.2"],
     prop |-> [d \in {"lumi.1", "lumi.3"} |-> SensorProps],
     hubmac |-> "0x54ef44"]

\* the sensor has no retained temperature
DB3 ==
    [DB1 EXCEPT !.prop = [d \in {"lumi.1"} |->
        [k \in {"humidity", "battery"} |-> SensorProps[k]]]]

Databases == {DB0, DB1, DB2, DB3}

\* ------------------------------------------------------------ setup_devices
RegisterNot(devs, device) == devs

\* self.devices[device['did']] = device
Register(devs, device) == Put(devs, device.did, device)

DomainReadyAlways(domain, st) == TRUE

\* while domain not in self.setups: time.sleep(1)
DomainReady(domain, st) == domain \in st

\* setup_devices from device q[1], parameter i (0: the device is not yet
\* registered), until the list is done or a domain has no setup handler:
\* the devices and parameter left, the registry and the hooks called
RECURSIVE SetupRun(_, _, _, _, _)
SetupRun(q, i, devs, hk, st) ==
    IF q = <<>> THEN [q |-> <<>>, i |-> 0, devs |-> devs, hk |-> hk]
    ELSE LET device == Head(q) IN
         IF i = 0
         THEN LET desc == get_device(device.model)
                  d1 == DictUpdate(device, [device_name |-> desc.device_name,
                                            params |-> desc.params])
                  d2 == IF d1.mac \in DOMAIN devs
                        THEN DictUpdate(d1, devs[d1.mac]) ELSE d1
              IN  IF ~desc.found THEN SetupRun(Tail(q), 0, devs, hk, st)
                  ELSE SetupRun(<<d2>> \o Tail(q), 1,
                                Register(devs, d2), hk, st)
         ELSE IF i > Len(device.params)
         THEN SetupRun(Tail(q), 0, devs, hk, st)
         ELSE LET param == device.params[i] IN
              IF param[4] = None THEN SetupRun(q, i + 1, devs, hk, st)
              ELSE IF ~DomainReady(param[4], st)
              THEN [q |-> q, i |-> i, devs |-> devs, hk |-> hk]
              ELSE SetupRun(q, i + 1, devs,
                            Append(hk, <<device.did, param[3]>>), st)

\* ------------------------------------------------------- process_bluetooth
\* data['dev']['mac'].replace(':', '').lower()
BleMac(mac) ==
    CASE mac = "A4:C1:38:00:00:01" -> "a4c138000001"
      [] OTHER -> mac

\* dict(payload)
RECURSIVE AsDict(_)
AsDict(pairs) ==
    IF pairs = <<>> THEN EmptyDict
    ELSE Put(AsDict(SubSeq(pairs, 1, Len(pairs) - 1)),
             pairs[Len(pairs)][1], pairs[Len(pairs)][2])

AlreadyInitNever(init, k) == FALSE

\* if k in device['init']: continue
AlreadyInit(init, k) == k \in DOMAIN init

\* the loop over payload.keys() from key i, until the keys are done or a
\* domain has no setup handler (waits): the key reached, the device's
\* init and the hooks called
RECURSIVE BleRun(_, _, _, _, _, _)
BleRun(did, payload, i, init, hk, st) ==
    IF i > Len(payload)
    THEN [i |-> i, init |-> init, hk |-> hk, waits |-> FALSE]
    ELSE LET k == payload[i][1] IN
         IF AlreadyInit(init, k)
         THEN BleRun(did, payload, i + 1, init, hk, st)
         ELSE LET init1 == Put(init, k, payload[i][2])
                  domain == get_ble_domain(k)
              IN  IF domain = None
                  THEN BleRun(did, payload, i + 1, init1, hk, st)
                  ELSE IF ~DomainReady(domain, st)
                  THEN [i |-> i, init |-> init1, hk |-> hk, waits |-> TRUE]
                  ELSE BleRun(did, payload, i + 1, init1,
                              Append(hk, <<did, k>>), st)

\* the record process_bluetooth creates for a did it has not seen
BleDevice(did, mac) ==
    [did |-> did, mac |-> BleMac(mac), device_name |-> "BLE", init |-> EmptyDict]

\* ------------------------------------------------------- inbound messages
Entry(w, v, ec) ==
    [res_name |-> w, siid |-> 0, piid |-> 0, value |-> v, error_code |-> ec]

\* the parameter entries the hub puts in a message; error_code <<>> is an
\* entry without the key
Entries ==
    { Entry("0.1.85", Num(2350), <<>>),
      Entry("0.1.85", Num(2350), <<1>>),
      Entry("8.0.2001", Num(1500), <<0>>),
      Entry("8.0.2008", Num(3000), <<>>),
      Entry("9.9.9", Str("on"), <<>>),
      Entry("8.0.2084", Dev(1), <<>>),
      [res_name |-> None, siid |-> 2, piid |-> 1, value |-> Num(4500),
       error_code |-> <<>>] }

RECURSIVE SeqsUpTo(_, _)
SeqsUpTo(S, n) ==
    IF n = 0 THEN {<<>>}
    ELSE LET shorter == SeqsUpTo(S, n - 1)
         IN  shorter \cup {Append(q, e) : q \in shorter, e \in S}

\* cmd, number of elements of a heartbeat's params list, key holding the entries
Shapes ==
    { <<"heartbeat", 0, "res_list">>, <<"heartbeat", 1, "res_list">>,
      <<"heartbeat", 2, "res_list">>, <<"report", 1, "params">>,
      <<"report", 1, "mi_spec">>, <<"write_rsp", 1, "results">>,
      <<"write_rsp", 1, "params">>, <<"read_rsp", 1, "params">> }

\* the device ids of the messages and of the subscriptions: the hub and the
\* sensor, which is registered or not according to the database read
Dids == {"lumi.0", "lumi.1"}

Msg(topic, shape, did, entries) ==
    [topic |-> topic, cmd |-> shape[1], hb |-> shape[2], field |-> shape[3],
     did |-> did, mac |-> "", entries |-> entries]

NoMsg == Msg("", <<"", 0, "">>, "", <<>>)

BusMessages ==
    { Msg("zigbee/send", sh, did, es) :
        sh \in Shapes, did \in Dids, es \in SeqsUpTo(Entries, MaxParams) }
    \cup { Msg("miio/report", <<"report", 1, "params">>, "lumi.1", <<>>) }

\* a line of the Bluetooth log relay: field is the 'BT' marker on_message
\* looks for, cmd the method of the notification, entries its 'evt' list
BleMsg(marker, method, did, evts) ==
    [topic |-> "log/bt", cmd |-> method, hb |-> 0, field |-> marker,
     did |-> did, mac |-> "A4:C1:38:00:00:01", entries |-> evts]

BleDids == {"blt.1"}

BleMessages ==
    { BleMsg("BT", "_async.ble_event", did, evts) :
        did \in BleDids,
        evts \in { <<>>, <<"temperature">>, <<"rssi_temperature">>,
                   <<"unsupported">>, <<"temperature", "temperature">> } }
    \cup { BleMsg("BT", "_async.other", "blt.1", <<>>),
           BleMsg("", "", "blt.1", <<>>) }

\* the entries of the short bus messages: an announcement of a device of
\* an unsupported model besides the others
RelayEntries == Entries \cup {Entry("8.0.2084", Dev(2), <<>>)}

\* the shapes of the short bus messages: a heartbeat, a report and a
\* command process_message does not know
RelayShapes ==
    { <<"heartbeat", 1, "res_list">>, <<"report", 1, "params">>,
      <<"read_rsp", 1, "params">> }

\* what the hub publishes while its Bluetooth relay runs: the relay's
\* lines and bus messages of at most one entry
RelayMessages ==
    BleMessages
    \cup { Msg("zigbee/send", sh, did, es) :
             sh \in RelayShapes, did \in Dids,
             es \in SeqsUpTo(RelayEntries, 1) }

\* ------------------------------------------------------------------- state
VARIABLES
    pc,         \* position of the worker thread in run()
    ret,        \* where setup_devices returns to
    devices,    \* self.devices
    updates,    \* self.updates: did -> handlers in registration order
    setups,     \* domains of self.setups
    mqtt,       \* state of the paho client
    inflight,   \* message the broker has sent and on_message has not seen
    trace,      \* channel operations of the current loop iteration
    setupQ,     \* setup_devices: devices left, the current one first
    setupIdx,   \* setup_devices: parameter of the current device
    hooked,     \* setup hooks called by the current handler
    delivered,  \* update handlers called by the current handler
    result,     \* how the last on_message ended
    rt,         \* name round trip: parameterSpec, name, wire name, resolved
    v1,         \* _get_devices_v1: stage, requests sent, devices by num, last page
    outbox,     \* what send() has handed to self.mqtt.publish
    ble,        \* process_bluetooth waiting for a domain: did, payload, key
    hookLog,    \* the setup hooks process_bluetooth has called, in order
    v3          \* _get_devices_v3: the database read and what it returns

vars == <<pc, ret, devices, updates, setups, mqtt, inflight, trace, setupQ,
          setupIdx, hooked, delivered, result, rt, v1, outbox, ble, hookLog,
          v3>>

setupVars == <<setupQ, setupIdx>>
msgVars == <<inflight, hooked, delivered, result>>
bleVars == <<ble, hookLog>>

Domains == {"sensor"}

\* config['devices']: an override for the sensor, by mac
Config == [m \in {"0x158d0001"} |-> [device_name |-> "Kitchen"]]

NoRt == [params |-> <<>>, param |-> "", value |-> NoneVal, prop |-> "", back |-> "",
         stage |-> "off"]

NoV3 == [db |-> DB0, stage |-> "off", found |-> <<>>]

NoBle == [did |-> "", payload |-> <<>>, idx |-> 0]

NoV1 == [stage |-> "off", requests |-> 0, nums |-> {}, part |-> [nums |-> {}, total |-> 0]]

Init ==
    /\ pc = "boot"
    /\ ret = "boot"
    /\ devices = Config
    /\ updates = [d \in {} |-> <<>>]
    /\ setups = {}
    /\ mqtt = "new"
    /\ inflight = NoMsg
    /\ trace = <<>>
    /\ setupQ = <<>>
    /\ setupIdx = 0
    /\ hooked = <<>>
    /\ delivered = <<>>
    /\ result = ""
    /\ rt = NoRt
    /\ v1 = NoV1
    /\ outbox = <<>>
    /\ ble = NoBle
    /\ hookLog = <<>>
    /\ v3 = NoV3

\* ------------------------------------------------------- external callers
\* add_update(did, handler); the handler is named by its did and rank
AddUpdate(did) ==
    /\ Len(IF did \in DOMAIN updates THEN updates[did] ELSE <<>>) < MaxHandlers
    /\ updates' = Put(updates, did,
                      Append(IF did \in DOMAIN updates THEN updates[did]
                             ELSE <<>>,
                             <<did, Len(IF did \in DOMAIN updates
                                        THEN updates[did] ELSE <<>>) + 1>>))
    /\ UNCHANGED <<pc, ret, devices, setups, mqtt, trace, setupVars, msgVars, rt, v1, outbox, bleVars, v3>>

\* add_setup(domain, handler)
AddSetup(domain) ==
    /\ setups' = setups \cup {domain}
    /\ UNCHANGED <<pc, ret, devices, updates, mqtt, trace, setupVars, msgVars, rt, v1, outbox, bleVars, v3>>

\* ------------------------------------------------------------ run: bootstrap
InBootstrapEmpty(devs) == DOMAIN devs = {}

\* while 'lumi.0' not in self.devices
InBootstrap(devs) == "lumi.0" \notin DOMAIN devs

BootCheck ==
    /\ pc = "boot"
    /\ pc' = IF InBootstrap(devices) THEN "boot_probe" ELSE "steady"
    /\ trace' = <<>>
    /\ UNCHANGED <<ret, devices, updates, setups, mqtt, setupVars, msgVars, rt, v1, outbox, bleVars, v3>>

\* if self._miio_connect(): ... else: time.sleep(30)
BootProbe(ok) ==
    /\ pc = "boot_probe"
    /\ pc' = IF ok THEN "boot_discover" ELSE "boot_sleep"
    /\ trace' = Append(trace, IF ok THEN "probe_ok" ELSE "probe_fail")
    /\ UNCHANGED <<ret, devices, updates, setups, mqtt, setupVars, msgVars, rt, v1, outbox, bleVars, v3>>

\* devices = self._get_devices_v3(); if devices: self.setup_devices(devices)
BootDiscover(found) ==
    /\ pc = "boot_discover"
    /\ IF found # <<>>
       THEN LET run == SetupRun(found, 0, devices, <<>>, setups)
            IN  /\ trace' = Append(trace, "discover_ok")
                /\ devices' = run.devs
                /\ hooked' = run.hk
                /\ setupQ' = run.q
                /\ setupIdx' = run.i
                /\ ret' = "boot"
                /\ pc' = IF run.q = <<>> THEN "boot" ELSE "setup_wait"
       ELSE /\ trace' = Append(trace, "discover_fail")
            /\ pc' = "boot_telnet"
            /\ UNCHANGED <<devices, hooked, setupVars, ret>>
    /\ UNCHANGED <<updates, setups, mqtt, inflight, delivered, result, rt, v1, outbox, bleVars, v3>>

\* else: self._enable_telnet()
BootEnableTelnet(ok) ==
    /\ pc = "boot_telnet"
    /\ pc' = "boot"
    /\ trace' = Append(trace, IF ok THEN "telnet_ok" ELSE "telnet_fail")
    /\ UNCHANGED <<ret, devices, updates, setups, mqtt, setupVars, msgVars, rt, v1, outbox, bleVars, v3>>

\* time.sleep(30)
BootSleep ==
    /\ pc = "boot_sleep"
    /\ pc' = "boot"
    /\ trace' = Append(trace, "sleep")
    /\ UNCHANGED <<ret, devices, updates, setups, mqtt, setupVars, msgVars, rt, v1, outbox, bleVars, v3>>

\* "wait domain init": setup_devices goes on once the domain has a handler
SetupResume ==
    /\ pc = "setup_wait"
    /\ DomainReady(setupQ[1].params[setupIdx][4], setups)
    /\ LET run == SetupRun(setupQ, setupIdx, devices, hooked, setups)
       IN  /\ devices' = run.devs
           /\ hooked' = run.hk
           /\ setupQ' = run.q
           /\ setupIdx' = run.i
           /\ pc' = IF run.q = <<>> THEN ret ELSE "setup_wait"
    /\ UNCHANGED <<ret, updates, setups, mqtt, inflight, trace, delivered,
                   result, rt, v1, outbox, bleVars, v3>>

\* --------------------------------------------------------- run: steady state
SteadyTopDiscovers == "boot_discover"

\* while True: the end of an iteration leads to the top of the second loop
SteadyTop == "steady"

\* if self._mqtt_connect(): self.mqtt.loop_forever()
SteadyReconnect(ok) ==
    /\ pc = "steady"
    /\ trace' = <<IF ok THEN "reconnect_ok" ELSE "reconnect_fail">>
    /\ mqtt' = IF ok THEN "connected" ELSE mqtt
    /\ pc' = IF ok THEN "loop_forever" ELSE "steady_probe"
    /\ UNCHANGED <<ret, devices, updates, setups, setupVars, msgVars, rt, v1, outbox, bleVars, v3>>

AfterProbeNoShortCircuit(ok) == "steady_telnet"

\* elif self._miio_connect() and self._enable_telnet(): the position after
\* the probe
AfterProbe(ok) == IF ok THEN "steady_telnet" ELSE "steady_sleep"

SteadyProbe(ok) ==
    /\ pc = "steady_probe"
    /\ trace' = Append(trace, IF ok THEN "probe_ok" ELSE "probe_fail")
    /\ pc' = AfterProbe(ok)
    /\ UNCHANGED <<ret, devices, updates, setups, mqtt, setupVars, msgVars, rt, v1, outbox, bleVars, v3>>

SteadyEnableTelnet(ok) ==
    /\ pc = "steady_telnet"
    /\ trace' = Append(trace, IF ok THEN "telnet_ok" ELSE "telnet_fail")
    /\ pc' = IF ok THEN "steady_mqtt" ELSE "steady_sleep"
    /\ UNCHANGED <<ret, devices, updates, setups, mqtt, setupVars, msgVars, rt, v1, outbox, bleVars, v3>>

\* self._enable_mqtt(): the result is not used
EnableMqtt(ok) ==
    /\ pc = "steady_mqtt"
    /\ trace' = Append(trace, IF ok THEN "enable_mqtt_ok" ELSE "enable_mqtt_fail")
    /\ pc' = SteadyTop
    /\ UNCHANGED <<ret, devices, updates, setups, mqtt, setupVars, msgVars, rt, v1, outbox, bleVars, v3>>

\* else: time.sleep(30)
SteadySleep ==
    /\ pc = "steady_sleep"
    /\ trace' = Append(trace, "sleep")
    /\ pc' = SteadyTop
    /\ UNCHANGED <<ret, devices, updates, setups, mqtt, setupVars, msgVars, rt, v1, outbox, bleVars, v3>>

\* ------------------------------------------------------ the bus receive loop
\* the broker sends the connected client one of the messages msgs
PublishFrom(msgs) ==
    /\ pc = "loop_forever"
    /\ mqtt = "connected"
    /\ inflight = NoMsg
    /\ result = ""
    /\ \E msg \in msgs : inflight' = msg
    /\ hooked' = <<>>
    /\ delivered' = <<>>
    /\ result' = ""
    /\ UNCHANGED <<pc, ret, devices, updates, setups, mqtt, trace, setupVars, rt,
                   v1, outbox, bleVars, v3>>

\* the hub reports its devices on the bus
Publish == PublishFrom(BusMessages)

\* the hub relays Bluetooth advertisements besides short bus messages
PublishRelay == PublishFrom(RelayMessages)

\* the connection is lost; what was on the wire is lost with it
BusDrop ==
    /\ mqtt = "connected"
    /\ mqtt' = "lost"
    /\ inflight' = NoMsg
    /\ UNCHANGED <<pc, ret, devices, updates, setups, trace, setupVars, hooked,
                   delivered, result, rt, v1, outbox, bleVars, v3>>

MqttKeep(state) == state

\* self.mqtt.disconnect(): the client is marked as disconnecting
MqttDisconnect(state) == "disconnecting"

\* on_disconnect, called by the loop when it finds the connection lost
OnDisconnect ==
    /\ pc = "loop_forever"
    /\ mqtt = "lost"
    /\ mqtt' = MqttDisconnect(mqtt)
    /\ UNCHANGED <<pc, ret, devices, updates, setups, inflight, trace, setupVars,
                   hooked, delivered, result, rt, v1, outbox, bleVars, v3>>

\* loop_forever returns once the client is disconnecting
LoopReturn ==
    /\ pc = "loop_forever"
    /\ mqtt = "disconnecting"
    /\ pc' = SteadyTop
    /\ trace' = Append(trace, "loop_return")
    /\ UNCHANGED <<ret, devices, updates, setups, mqtt, setupVars, msgVars, rt, v1, outbox, bleVars, v3>>

DispatchReversed(upd, did, payload) ==
    [i \in 1..Len(upd[did]) |-> <<upd[did][Len(upd[did]) + 1 - i], payload>>]

\* for handler in self.updates[did]: handler(payload)
Dispatch(upd, did, payload) ==
    [i \in 1..Len(upd[did]) |-> <<upd[did][i], payload>>]

AddedDeviceRawMac(payload) == NewDevices[payload["added_device"].n]

\* device = payload['added_device']; device['mac'] = '0x' + device['mac']
AddedDevice(payload) ==
    LET device == NewDevices[payload["added_device"].n]
    IN  [device EXCEPT !.mac = Prefix0x(device.mac)]

\* where an exception raised in a callback leaves the worker: nothing
\* between process_message and the top of run() catches it
AfterException == "dead"

\* if did in self.updates: for handler in self.updates[did]: handler(payload)
BleDispatch(upd, did, payload) ==
    IF did \in DOMAIN upd THEN Dispatch(upd, did, payload) ELSE <<>>

\* on_message for a line of the Bluetooth relay: process_bluetooth
ProcessBluetooth ==
    LET data == inflight
        did == data.did
        device == IF did \in DOMAIN devices THEN devices[did]
                  ELSE BleDevice(did, data.mac)
        decoded == parse_xiaomi_ble(data.entries[1])
    IN  IF data.field # "BT"
        THEN /\ result' = "ValueError"
             /\ pc' = AfterException
             /\ UNCHANGED <<devices, hooked, delivered, bleVars, v3>>
        ELSE IF data.cmd # "_async.ble_event"
        THEN /\ result' = "ignored"
             /\ UNCHANGED <<pc, devices, hooked, delivered, bleVars, v3>>
        ELSE IF Len(data.entries) # 1
        THEN /\ result' = "AssertionError"
             /\ pc' = AfterException
             /\ devices' = Put(devices, did, device)
             /\ UNCHANGED <<hooked, delivered, bleVars, v3>>
        ELSE IF ~decoded.found
        THEN /\ result' = "unsupported"
             /\ devices' = Put(devices, did, device)
             /\ UNCHANGED <<pc, hooked, delivered, bleVars, v3>>
        ELSE LET run == BleRun(did, decoded.payload, 1, device.init, <<>>,
                               setups)
             IN  /\ devices' = Put(devices, did,
                                   [device EXCEPT !.init = run.init])
                 /\ hooked' = run.hk
                 /\ hookLog' = hookLog \o run.hk
                 /\ IF run.waits
                    THEN /\ pc' = "ble_wait"
                         /\ ble' = [did |-> did, payload |-> decoded.payload,
                                    idx |-> run.i]
                         /\ result' = "waiting"
                         /\ UNCHANGED delivered
                    ELSE /\ delivered' = BleDispatch(updates, did,
                                                     AsDict(decoded.payload))
                         /\ result' = "dispatched"
                         /\ UNCHANGED <<pc, ble>>

\* on_message for a message of the topic 'zigbee/send': process_message
ProcessBus ==
    LET r == ProcessMessage(inflight, devices, updates) IN
    IF r.result = "skipped"
    THEN /\ result' = "skipped"
         /\ UNCHANGED <<pc, ret, devices, setupVars, hooked, delivered>>
    ELSE IF r.result # "dispatched"
    THEN /\ result' = r.result
         /\ pc' = AfterException
         /\ UNCHANGED <<ret, devices, setupVars, hooked, delivered>>
    ELSE /\ delivered' = Dispatch(updates, inflight.did, r.payload)
         /\ IF "added_device" \notin DOMAIN r.payload
            THEN /\ result' = "dispatched"
                 /\ UNCHANGED <<pc, ret, devices, setupVars, hooked>>
            ELSE IF r.payload["added_device"].kind # "dev"
            THEN /\ result' = "TypeError"
                 /\ pc' = AfterException
                 /\ UNCHANGED <<ret, devices, setupVars, hooked>>
            ELSE LET run == SetupRun(<<AddedDevice(r.payload)>>, 0,
                                     devices, <<>>, setups)
                 IN  /\ result' = "dispatched"
                     /\ devices' = run.devs
                     /\ hooked' = run.hk
                     /\ setupQ' = run.q
                     /\ setupIdx' = run.i
                     /\ ret' = "loop_forever"
                     /\ pc' = IF run.q = <<>> THEN "loop_forever"
                              ELSE "setup_wait"

\* on_message for the message in flight
OnMessage ==
    /\ pc = "loop_forever"
    /\ inflight # NoMsg
    /\ inflight' = NoMsg
    /\ IF inflight.topic = "zigbee/send"
       THEN ProcessBus /\ UNCHANGED bleVars
       ELSE IF inflight.topic = "log/bt"
       THEN ProcessBluetooth /\ UNCHANGED <<ret, setupVars>>
       ELSE /\ result' = "ignored"
            /\ UNCHANGED <<pc, ret, devices, setupVars, hooked, delivered,
                           bleVars>>
    /\ UNCHANGED <<updates, setups, mqtt, trace, rt, v1, outbox, v3>>

\* "wait domain init" in process_bluetooth: the loop over the keys goes on
\* with the hook of the key it waited for, then the update is dispatched
BleResume ==
    /\ pc = "ble_wait"
    /\ DomainReady(get_ble_domain(ble.payload[ble.idx][1]), setups)
    /\ LET did == ble.did
           hk1 == Append(hooked, <<did, ble.payload[ble.idx][1]>>)
           run == BleRun(did, ble.payload, ble.idx + 1, devices[did].init,
                         hk1, setups)
       IN  /\ devices' = Put(devices, did,
                             [devices[did] EXCEPT !.init = run.init])
           /\ hooked' = run.hk
           /\ hookLog' = hookLog \o SubSeq(run.hk, Len(hooked) + 1, Len(run.hk))
           /\ IF run.waits
              THEN /\ ble' = [ble EXCEPT !.idx = run.i]
                   /\ UNCHANGED <<pc, delivered, result>>
              ELSE /\ pc' = "loop_forever"
                   /\ ble' = NoBle
                   /\ delivered' = BleDispatch(updates, did,
                                               AsDict(ble.payload))
                   /\ result' = "dispatched"
    /\ UNCHANGED <<ret, updates, setups, mqtt, inflight, trace, setupVars, rt,
                   v1, outbox, v3>>

\* on_message has returned to the loop: the calls it made are over
OnMessageReturn ==
    /\ pc = "loop_forever"
    /\ result # ""
    /\ result' = ""
    /\ hooked' = <<>>
    /\ delivered' = <<>>
    /\ UNCHANGED <<pc, ret, devices, updates, setups, mqtt, inflight, trace,
                   setupVars, rt, v1, outbox, bleVars, v3>>

\* ------------------------------------------------------------ specification
\* the steps of the worker thread and of the bus, add_setup included
Worker ==
    \/ \E domain \in Domains : AddSetup(domain)
    \/ BootCheck
    \/ \E ok \in BOOLEAN : BootProbe(ok)
    \/ \E found \in {<<>>} \cup {GetDevicesV3(db) : db \in Databases} :
          BootDiscover(found)
    \/ \E ok \in BOOLEAN : BootEnableTelnet(ok)
    \/ BootSleep
    \/ SetupResume
    \/ \E ok \in BOOLEAN : SteadyReconnect(ok)
    \/ \E ok \in BOOLEAN : SteadyProbe(ok)
    \/ \E ok \in BOOLEAN : SteadyEnableTelnet(ok)
    \/ \E ok \in BOOLEAN : EnableMqtt(ok)
    \/ SteadySleep
    \/ BusDrop
    \/ OnDisconnect
    \/ LoopReturn
    \/ OnMessage
    \/ OnMessageReturn

\* a hub without Bluetooth devices in range: bus messages of up to
\* MaxParams entries
Next ==
    \/ \E did \in Dids : AddUpdate(did)
    \/ Publish
    \/ Worker

Spec == Init /\ [][Next]_vars

\* a hub whose Bluetooth relay runs: its lines and short bus messages
NextBle ==
    \/ \E did \in Dids \cup BleDids : AddUpdate(did)
    \/ PublishRelay
    \/ BleResume
    \/ Worker

SpecBle == Init /\ [][NextBle]_vars

\* ------------------------------------------------------- name round trip
\* send() and process_message() on a device whose parameterSpec is drawn
\* from the specs over two wire names and three canonical names
RtWires == {"8.0.2008", "0.1.85"}
RtNames == {"voltage", "temperature", "battery"}
RtTuples == {<<w, "load_power", c, None>> : w \in RtWires, c \in RtNames}
RtValues == {Num(1), Str("on")}

InitNames ==
    /\ pc = "boot"
    /\ ret = "boot"
    /\ devices = Config
    /\ updates = [d \in {} |-> <<>>]
    /\ setups = {}
    /\ mqtt = "new"
    /\ inflight = NoMsg
    /\ trace = <<>>
    /\ setupQ = <<>>
    /\ setupIdx = 0
    /\ hooked = <<>>
    /\ delivered = <<>>
    /\ result = ""
    /\ rt \in [params : SeqsUpTo(RtTuples, MaxSpecLen), param : RtNames,
                value : RtValues, prop : {""}, back : {""}, stage : {"built"}]
    /\ v1 = NoV1
    /\ outbox = <<>>
    /\ ble = NoBle
    /\ hookLog = <<>>
    /\ v3 = NoV3

\* send(device, param, value) for the device 'lumi.1' with that
\* parameterSpec: StopIteration leaves send before anything is published
RtSend ==
    /\ rt.stage = "built"
    /\ LET prop == SendProp(rt.params, rt.param)
       IN  /\ rt' = IF prop = None THEN [rt EXCEPT !.stage = "StopIteration"]
                    ELSE [rt EXCEPT !.prop = prop, !.stage = "published"]
           /\ outbox' = IF SendPublishes(prop)
                        THEN Append(outbox, [topic |-> SendTopic,
                                 payload |-> WriteCommand("lumi.1", prop, rt.value)])
                        ELSE outbox
    /\ UNCHANGED <<pc, ret, devices, updates, setups, mqtt, trace, setupVars,
                   msgVars, v1, bleVars, v3>>

\* process_message on a report for the device that carries that wire name
RtReport ==
    /\ rt.stage = "published"
    /\ LET devs == [d \in {"lumi.1"} |-> [did |-> d, params |-> rt.params]]
           upd == [d \in {"lumi.1"} |-> << <<d, 1>> >>]
           data == Msg("zigbee/send", <<"report", 1, "params">>, "lumi.1",
                       <<Entry(rt.prop, Num(1), <<>>)>>)
           r == ProcessMessage(data, devs, upd)
       IN  rt' = [rt EXCEPT !.stage = "resolved",
                            !.back = CHOOSE k \in DOMAIN r.payload : TRUE]
    /\ UNCHANGED <<pc, ret, devices, updates, setups, mqtt, trace, setupVars,
                   msgVars, v1, outbox, bleVars, v3>>

NextNames == RtSend \/ RtReport

SpecNames == InitNames /\ [][NextNames]_vars

\* --------------------------------------------------- paginated discovery
\* _get_devices_v1: the 'get_device_list' loop, page by page
PageLimit == 16

\* the 'num' fields of the devices of a hub, and the totals it reports
\* (9 is a total the hub holds no devices for)
PageNums == {1, 2, 3}
PageTotals == {1, 2, 3, 9}

\* a page: the nums of its items and the 'total' field of the first one
Pages == [nums : SUBSET PageNums, total : PageTotals]

RangeUnbounded(requests) == FALSE

\* for _ in range(16): the loop ends after the 16th pass
RangeDone(requests) == requests = PageLimit

\* the stage after a page: return [] on an empty page, break when the
\* total is reached, leave the loop when the range is used up
AfterPage(part, nums, requests) ==
    IF part.nums = {} THEN "empty"
    ELSE IF part.total = Cardinality(nums \cup part.nums) THEN "listed"
    ELSE IF RangeDone(requests) THEN "listed"
    ELSE "paging"

InitPages ==
    /\ pc = "boot"
    /\ ret = "boot"
    /\ devices = Config
    /\ updates = [d \in {} |-> <<>>]
    /\ setups = {}
    /\ mqtt = "new"
    /\ inflight = NoMsg
    /\ trace = <<>>
    /\ setupQ = <<>>
    /\ setupIdx = 0
    /\ hooked = <<>>
    /\ delivered = <<>>
    /\ result = ""
    /\ rt = NoRt
    /\ v1 = [NoV1 EXCEPT !.stage = "paging"]
    /\ outbox = <<>>
    /\ ble = NoBle
    /\ hookLog = <<>>
    /\ v3 = NoV3

\* part = self.miio.send('get_device_list', retry_count=10) and the rest
\* of the pass
V1Page(part) ==
    /\ v1.stage = "paging"
    /\ v1' = [stage |-> AfterPage(part, v1.nums, v1.requests + 1),
              requests |-> v1.requests + 1,
              nums |-> v1.nums \cup part.nums,
              part |-> part]
    /\ UNCHANGED <<pc, ret, devices, updates, setups, mqtt, trace, setupVars,
                   msgVars, rt, outbox, bleVars, v3>>

\* the request raises after its retries: except Exception -> return None
V1PageFails ==
    /\ v1.stage = "paging"
    /\ v1' = [v1 EXCEPT !.stage = "None", !.requests = v1.requests + 1]
    /\ UNCHANGED <<pc, ret, devices, updates, setups, mqtt, trace, setupVars,
                   msgVars, rt, outbox, bleVars, v3>>

\* the properties of the listed devices and the hub's own descriptor are
\* read; any failure there makes the function return None
V1Props(ok) ==
    /\ v1.stage = "listed"
    /\ v1' = [v1 EXCEPT !.stage = IF ok THEN "returned" ELSE "None"]
    /\ UNCHANGED <<pc, ret, devices, updates, setups, mqtt, trace, setupVars,
                   msgVars, rt, outbox, bleVars, v3>>

NextPages ==
    \/ \E part \in Pages : V1Page(part)
    \/ V1PageFails
    \/ \E ok \in BOOLEAN : V1Props(ok)

SpecPages == InitPages /\ [][NextPages]_vars

\* ----------------------------------------------- discovery on any database
\* the databases of a hub with up to two of three devices listed, each a
\* sensor, a plug or a device of an unsupported model, with one of four
\* sets of retained values
DiscDids == {"lumi.1", "lumi.2", "lumi.3"}
DiscModels == {"lumi.sensor_ht", "lumi.plug", "lumi.unknown"}
DiscLists ==
    {q \in SeqsUpTo(DiscDids, 2) : \A i, j \in 1..Len(q) : q[i] = q[j] => i = j}

\* the 'props' of <did>.prop, by the variant of the database and the model
Retained(variant, model) ==
    IF model = "lumi.plug"
    THEN CASE variant = 1 -> [k \in {"neutral_0"} |-> Str("on")]
           [] variant = 2 -> [k \in {"neutral_0"} |-> Str("off")]
           [] variant = 3 -> [k \in {"neutral_0"} |-> Str("open")]
           [] OTHER -> EmptyDict
    ELSE CASE variant = 1 -> SensorProps
           [] variant = 2 -> [SensorProps EXCEPT !["battery"] = Num(3300)]
           [] variant = 3 -> [k \in {"humidity", "battery"} |-> SensorProps[k]]
           [] OTHER -> [SensorProps EXCEPT !["battery"] = Num(90)]

DiscDatabases ==
    { [dev_list |-> q,
       model |-> m,
       mac |-> [d \in DiscDids |-> "158d0001"],
       version |-> [d \in DiscDids |-> "1.2"],
       prop |-> [d \in DiscDids |-> Retained(variant, m[d])],
       hubmac |-> "0x54ef44"] :
      q \in DiscLists, m \in [DiscDids -> DiscModels], variant \in 1..4 }

InitDiscover ==
    /\ pc = "boot"
    /\ ret = "boot"
    /\ devices = Config
    /\ updates = [d \in {} |-> <<>>]
    /\ setups = {}
    /\ mqtt = "new"
    /\ inflight = NoMsg
    /\ trace = <<>>
    /\ setupQ = <<>>
    /\ setupIdx = 0
    /\ hooked = <<>>
    /\ delivered = <<>>
    /\ result = ""
    /\ rt = NoRt
    /\ v1 = NoV1
    /\ outbox = <<>>
    /\ ble = NoBle
    /\ hookLog = <<>>
    /\ v3 \in [db : DiscDatabases, stage : {"read"}, found : {<<>>}]

\* _get_devices_v3 on the database read
V3Discover ==
    /\ v3.stage = "read"
    /\ v3' = [v3 EXCEPT !.stage = "returned", !.found = GetDevicesV3(v3.db)]
    /\ UNCHANGED <<pc, ret, devices, updates, setups, mqtt, trace, setupVars,
                   msgVars, rt, v1, outbox, bleVars>>

NextDiscover == V3Discover

SpecDiscover == InitDiscover /\ [][NextDiscover]_vars

\* The worker thread runs its steps around the receive loop; nothing is
\* assumed of the hub or of the callers.
WorkerFairness ==
    /\ WF_vars(OnDisconnect)
    /\ WF_vars(LoopReturn)
    /\ WF_vars(\E ok \in BOOLEAN : SteadyReconnect(ok))

LiveSpec == Spec /\ WorkerFairness

\* The polling loops of setup_devices and process_bluetooth go on once
\* their condition holds.
WaitFairness == WF_vars(SetupResume) /\ WF_vars(BleResume)

LiveSpecBle == SpecBle /\ WaitFairness

\* ------------------------------------------------------------------ claims
BootPcs == {"boot", "boot_probe", "boot_discover", "boot_telnet", "boot_sleep"}
SteadyPcs == {"steady", "steady_probe", "steady_telnet", "steady_mqtt",
              "steady_sleep", "loop_forever"}

InSetupOf(p) == pc = "setup_wait" /\ ret = p

\* the step is on_message taking the message in flight
Handles == inflight # NoMsg /\ inflight' = NoMsg /\ mqtt' = mqtt

HandlesBus == Handles /\ inflight.topic = "zigbee/send"

\* the payload the update handlers were called with
PayloadOf(calls) == calls[1][2]

\* C1: the reconciliation loop never reaches a terminated state: the worker
\* is always bootstrapping, connected, recovering or in backoff.
C1_NeverTerminated ==
    pc \in BootPcs \cup SteadyPcs \cup {"setup_wait"}

\* C2: while 'lumi.0' is not registered the loop is in bootstrap and has
\* made no bus reconnect; a bootstrap iteration probes first, discovers only
\* after a successful probe, registers on discovery success, enables the
\* shell only after a failed discovery, sleeps only after a failed probe;
\* the steady-state loop is entered only with 'lumi.0' registered.
C2_Bootstrap ==
    /\ "lumi.0" \notin DOMAIN devices =>
          /\ pc \in BootPcs
          /\ mqtt = "new"
          /\ \A i \in 1..Len(trace) :
                trace[i] \notin {"reconnect_ok", "reconnect_fail"}
    /\ (pc \in SteadyPcs \/ pc = "dead" \/ InSetupOf("loop_forever")) =>
          "lumi.0" \in DOMAIN devices
    /\ pc = "boot_probe" => trace = <<>>
    /\ pc = "boot_discover" => trace = <<"probe_ok">>
    /\ pc = "boot_telnet" => trace = <<"probe_ok", "discover_fail">>
    /\ pc = "boot_sleep" => trace = <<"probe_fail">>
    /\ InSetupOf("boot") => trace = <<"probe_ok", "discover_ok">>
    /\ pc = "boot" =>
          \/ trace = <<>>
          \/ trace = <<"probe_fail", "sleep">>
          \/ trace = <<"probe_ok", "discover_fail", "telnet_ok">>
          \/ trace = <<"probe_ok", "discover_fail", "telnet_fail">>
          \/ /\ trace = <<"probe_ok", "discover_ok">>
             /\ "lumi.0" \in DOMAIN devices

\* a bootstrap iteration ended with the devices registered
C2_Witness ==
    /\ pc = "boot"
    /\ trace = <<"probe_ok", "discover_ok">>
    /\ "lumi.1" \in DOMAIN devices

\* C3: a steady-state iteration takes exactly one of three courses: the
\* reconnect succeeds and the worker is in the receive loop; or reconnect
\* fails, probe and shell enable succeed and the bus-enabling sequence is
\* issued; or it sleeps after a failed probe or a failed shell enable.  The
\* shell enable never follows a failed probe.
C3_SteadyIteration ==
    /\ pc = "steady_probe" => trace = <<"reconnect_fail">>
    /\ pc = "steady_telnet" => trace = <<"reconnect_fail", "probe_ok">>
    /\ pc = "steady_mqtt" =>
          trace = <<"reconnect_fail", "probe_ok", "telnet_ok">>
    /\ pc = "steady_sleep" =>
          \/ trace = <<"reconnect_fail", "probe_fail">>
          \/ trace = <<"reconnect_fail", "probe_ok", "telnet_fail">>
    /\ (pc = "loop_forever" \/ InSetupOf("loop_forever")) =>
          trace = <<"reconnect_ok">>
    /\ pc = "steady" =>
          \/ trace = <<>>
          \/ trace = <<"reconnect_ok", "loop_return">>
          \/ trace = <<"reconnect_fail", "probe_ok", "telnet_ok",
                       "enable_mqtt_ok">>
          \/ trace = <<"reconnect_fail", "probe_ok", "telnet_ok",
                       "enable_mqtt_fail">>
          \/ trace = <<"reconnect_fail", "probe_fail", "sleep">>
          \/ trace = <<"reconnect_fail", "probe_ok", "telnet_fail", "sleep">>

\* an iteration went to sleep after a failed probe
C3_Witness ==
    pc = "steady" /\ trace = <<"reconnect_fail", "probe_fail", "sleep">>

\* C4: when the bus is lost while the worker is in the receive loop, the
\* loop returns to run(), and run() then attempts the bus reconnect again.
C4_DisconnectReturns ==
    /\ (pc = "loop_forever" /\ mqtt = "lost") ~> (pc = "steady")
    /\ (pc = "steady" /\ mqtt = "disconnecting") ~>
          (pc = "steady_probe" \/ mqtt = "connected")

\* the loop has returned after a disconnect
C4_Witness ==
    /\ pc = "steady"
    /\ mqtt = "disconnecting"
    /\ trace = <<"reconnect_ok", "loop_return">>

\* the messages process_message must reject
Rejected(m) ==
    \/ m.cmd \notin {"heartbeat", "report", "write_rsp"}
    \/ m.cmd = "heartbeat" /\ m.hb # 1

\* C5: a malformed or unexpected bus message is not fatal: the worker stays
\* in the receive loop after it.
C5_BadMessageNotFatal ==
    [][(HandlesBus /\ Rejected(inflight)) => pc' = "loop_forever"]_vars

\* C6: process_message raises on every message with an unsupported cmd and
\* on every heartbeat without exactly one parameter element; no update
\* handler and no setup hook is called and the registry is unchanged.
C6_Rejects ==
    [][(HandlesBus /\ Rejected(inflight)) =>
          /\ result' \in {"AssertionError", "TypeError"}
          /\ delivered' = <<>>
          /\ hooked' = <<>>
          /\ devices' = devices]_vars

\* a heartbeat was rejected
C6_Witness ==
    result = "AssertionError" /\ delivered = <<>> /\ hooked = <<>>

\* C7: a well-formed heartbeat, report or write_rsp for a device id without
\* update subscriber changes nothing: no handler, no setup hook, same
\* registry and subscriber lists.
C7_NoSubscriberNoEffect ==
    [][(HandlesBus /\ ~Rejected(inflight)
          /\ inflight.did \notin DOMAIN updates) =>
          /\ result' = "skipped"
          /\ pc' = pc
          /\ delivered' = <<>>
          /\ hooked' = <<>>
          /\ devices' = devices
          /\ updates' = updates]_vars

\* a message was skipped while the hub itself is registered
C7_Witness ==
    result = "skipped" /\ pc = "loop_forever" /\ delivered = <<>>

\* the canonical name of a wire name, stated on the tables
NameOf(params, w) ==
    IF w \in DOMAIN GLOBAL_PROP THEN GLOBAL_PROP[w]
    ELSE IF \E i \in 1..Len(params) : params[i][1] = w
    THEN LET i == CHOOSE i \in 1..Len(params) :
                    /\ params[i][1] = w
                    /\ \A j \in 1..(i - 1) : params[j][1] # w
         IN  params[i][3]
    ELSE w

\* the wire name of an entry, stated on the entry
WireOf(e) ==
    IF e.res_name # None THEN e.res_name
    ELSE IF e.siid = 2 THEN "2.1" ELSE "3.1"

\* the entries that count: error code zero or absent
Counted(es) ==
    {i \in 1..Len(es) : es[i].error_code = <<>> \/ es[i].error_code = <<0>>}

\* the last counted entry of es that resolves to the name k
LastFor(params, es, k) ==
    CHOOSE i \in Counted(es) :
        /\ NameOf(params, WireOf(es[i])) = k
        /\ \A j \in Counted(es) :
              NameOf(params, WireOf(es[j])) = k => j <= i

\* the message is one of the three accepted shapes, read from its own key
WellFormed(m) ==
    \/ m.cmd = "heartbeat" /\ m.hb = 1 /\ m.field = "res_list"
    \/ m.cmd = "report" /\ m.field \in {"params", "mi_spec"}
    \/ m.cmd = "write_rsp" /\ m.field = "results"

ToRegisteredSubscriber(m) ==
    /\ WellFormed(m)
    /\ m.did \in DOMAIN updates
    /\ m.did \in DOMAIN devices

\* C8: for a message to a subscribed, registered device the keys of the
\* dispatched update are exactly the resolved names of the entries with
\* zero or absent error code, and temperature and humidity are raw / 100.
C8_NormalizedUpdate ==
    [][(HandlesBus /\ ToRegisteredSubscriber(inflight)) =>
          LET es == inflight.entries
              params == devices[inflight.did].params
          IN  /\ result' = "dispatched"
              /\ Len(delivered') = Len(updates[inflight.did])
              /\ \A c \in 1..Len(delivered') :
                    /\ DOMAIN delivered'[c][2] =
                          {NameOf(params, WireOf(es[i])) : i \in Counted(es)}
                    /\ \A k \in DOMAIN delivered'[c][2] :
                          k \in {"temperature", "humidity"} =>
                             100 * delivered'[c][2][k].n =
                                es[LastFor(params, es, k)].value.n]_vars

\* an update with a temperature and no other key was dispatched
C8_Witness ==
    /\ result = "dispatched"
    /\ delivered # <<>>
    /\ DOMAIN PayloadOf(delivered) = {"temperature"}
    /\ PayloadOf(delivered)["temperature"].n = 2350

\* round((min(v, 3200) - 2500) / 7) clamped to [0, 100], in hundredths
ClampedPercent(n) ==
    LET r == PyRoundDiv(Min2(n, 320000) - 250000, 700)
    IN  100 * (IF r < 0 THEN 0 ELSE IF r > 100 THEN 100 ELSE r)

\* C9: a battery raw value v > 1000 is normalized to
\* round((min(v, 3200) - 2500) / 7) clamped to [0, 100]; 1500 yields 0.
C9_BatteryClamped ==
    [][(HandlesBus /\ ToRegisteredSubscriber(inflight)) =>
          LET es == inflight.entries
              params == devices[inflight.did].params
          IN  \A c \in 1..Len(delivered') :
                 \A k \in DOMAIN delivered'[c][2] :
                    (k = "battery"
                       /\ es[LastFor(params, es, k)].value.n > 1000 * 100) =>
                       delivered'[c][2][k].n =
                          ClampedPercent(es[LastFor(params, es, k)].value.n)]_vars

\* C10 as stated: a name for which send succeeds comes back from the inbound
\* resolution of the wire name that send put in the command.
C10_RoundTrip ==
    rt.stage = "resolved" => rt.back = rt.param

\* the wire name is free of the global table (or mapped to the same name
\* there) and no parameterSpec entry before the one send used carries it
RtUnshadowed ==
    /\ rt.prop \in DOMAIN GLOBAL_PROP => GLOBAL_PROP[rt.prop] = rt.param
    /\ rt.prop \notin DOMAIN GLOBAL_PROP =>
          \A i \in 1..Len(rt.params) :
             rt.params[i][1] = rt.prop =>
                \E j \in 1..i : rt.params[j][3] = rt.param

\* C10 amended: the round trip holds when the wire name is not shadowed by
\* the global-property table nor by an earlier parameterSpec entry.
C10_RoundTripUnshadowed ==
    (rt.stage = "resolved" /\ RtUnshadowed) => rt.back = rt.param

\* a round trip through the second entry of a parameterSpec
C10_Witness ==
    /\ rt.stage = "resolved"
    /\ RtUnshadowed
    /\ Len(rt.params) = 2
    /\ rt.params[1][3] # rt.param
    /\ rt.back = rt.param

\* C11: paginated discovery sends at most 16 'get device list' requests
\* whatever totals the hub reports, and it stops earlier as soon as a page
\* is empty or the reported total equals the number of devices accumulated
C11_PageCap ==
    /\ v1.requests <= PageLimit
    /\ v1.stage = "paging" => v1.requests < PageLimit
    /\ (v1.requests > 0 /\ v1.stage # "None") =>
          /\ v1.part.nums = {} <=> v1.stage = "empty"
          /\ (v1.part.nums # {} /\ v1.part.total = Cardinality(v1.nums))
                => v1.stage # "paging"
          /\ (v1.part.nums # {} /\ v1.part.total # Cardinality(v1.nums)
                /\ v1.requests < PageLimit) => v1.stage = "paging"

\* the sixteenth page still does not reach the reported total
C11_Witness ==
    /\ v1.requests = PageLimit
    /\ v1.stage = "listed"
    /\ v1.part.total # Cardinality(v1.nums)

\* C12: send with a canonical name that no parameterSpec entry carries
\* raises to its caller and publishes nothing; with a name that an entry
\* carries it publishes exactly one write command, on 'zigbee/recv', with
\* the wire name of the first such entry and the value given
C12_SendOrFail ==
    LET matches == {i \in 1..Len(rt.params) : rt.params[i][3] = rt.param}
    IN  /\ rt.stage = "built" => outbox = <<>>
        /\ (rt.stage # "built" /\ matches = {}) =>
              rt.stage = "StopIteration" /\ outbox = <<>>
        /\ (rt.stage # "built" /\ matches # {}) =>
              /\ rt.stage \in {"published", "resolved"}
              /\ Len(outbox) = 1
              /\ outbox[1].topic = "zigbee/recv"
              /\ outbox[1].payload.cmd = "write"
              /\ outbox[1].payload.did = "lumi.1"
              /\ \E i \in matches :
                    /\ \A j \in matches : i <= j
                    /\ outbox[1].payload.params =
                          << [res_name |-> rt.params[i][1], value |-> rt.value] >>

\* send has failed on a device that has parameters, none of that name
C12_Witness ==
    /\ rt.stage = "StopIteration"
    /\ Len(rt.params) = 2
    /\ outbox = <<>>

\* send has published the wire name of the second parameterSpec entry
C12_WitnessPublished ==
    /\ rt.stage = "published"
    /\ Len(rt.params) = 2
    /\ rt.params[1][3] # rt.param
    /\ Len(outbox) = 1

\* the step is on_message taking a Bluetooth event that process_bluetooth
\* decodes
HandlesBle ==
    /\ Handles
    /\ inflight.topic = "log/bt"
    /\ inflight.field = "BT"
    /\ inflight.cmd = "_async.ble_event"
    /\ Len(inflight.entries) = 1
    /\ parse_xiaomi_ble(inflight.entries[1]).found

\* the names the decoder gives, and the times a hook was called for a pair
BleKeys == {"temperature", "rssi"}
HookCalls(did, k) ==
    Cardinality({i \in 1..Len(hookLog) : hookLog[i] = <<did, k>>})

\* process_bluetooth waits for the domain of that property
BlePending(did, k) ==
    pc = "ble_wait" /\ ble.did = did /\ ble.payload[ble.idx][1] = k

\* C13: over any sequence of Bluetooth events the setup hook is called
\* exactly once for each (device, property) whose property has a domain,
\* in the handling of the first event of the device that carries the
\* property, and never for a property without domain
C13_HookOncePerPair ==
    /\ [](\A did \in BleDids, k \in BleKeys :
            HookCalls(did, k) =
               IF /\ get_ble_domain(k) # None
                  /\ did \in DOMAIN devices
                  /\ k \in DOMAIN devices[did].init
                  /\ ~BlePending(did, k)
               THEN 1 ELSE 0)
    /\ [][HandlesBle =>
            \A i \in 1..Len(parse_xiaomi_ble(inflight.entries[1]).payload) :
               LET k == parse_xiaomi_ble(inflight.entries[1]).payload[i][1]
                   seen == /\ inflight.did \in DOMAIN devices
                           /\ k \in DOMAIN devices[inflight.did].init
               IN  /\ (seen \/ get_ble_domain(k) = None)
                        => <<inflight.did, k>> \notin
                              {hooked'[j] : j \in 1..Len(hooked')}
                   /\ (~seen /\ get_ble_domain(k) # None /\ pc' # "ble_wait")
                        => <<inflight.did, k>> \in
                              {hooked'[j] : j \in 1..Len(hooked')}]_vars

\* a second event that carries the temperature has been dispatched to the
\* device's subscriber without a hook call
C13_Witness ==
    /\ result = "dispatched"
    /\ delivered # <<>>
    /\ delivered[1][1][1] = "blt.1"
    /\ hooked = <<>>
    /\ hookLog = << <<"blt.1", "temperature">> >>
    /\ "rssi" \in DOMAIN devices["blt.1"].init

\* the worker waits in setup_devices or process_bluetooth for a handler
\* of that domain
WaitsFor(domain) ==
    \/ pc = "setup_wait" /\ setupQ[1].params[setupIdx][4] = domain
    \/ pc = "ble_wait" /\ get_ble_domain(ble.payload[ble.idx][1]) = domain

\* the domain of a hook call <<did, name>>, by the registry reg
HookDomain(reg, h) ==
    IF "params" \in DOMAIN reg[h[1]]
    THEN LET params == reg[h[1]].params
             i == CHOOSE j \in 1..Len(params) : params[j][3] = h[2]
         IN  params[i][4]
    ELSE get_ble_domain(h[2])

\* C14: a setup hook is called only when its domain has a handler; while
\* the domain has none the worker stays where it waits, calls no hook and
\* takes no message; once the handler is registered the worker goes on
\* and calls the hook
C14_WaitsForDomain ==
    /\ [][\A j \in 1..Len(hooked') :
             (j > Len(hooked) \/ hooked'[j] # hooked[j])
                => HookDomain(devices', hooked'[j]) \in setups]_vars
    /\ [][\A dom \in Domains :
             (WaitsFor(dom) /\ dom \notin setups) =>
                /\ pc' = pc
                /\ UNCHANGED <<devices, hooked, delivered, result, setupVars,
                               ble, hookLog>>
                /\ ~Handles]_vars
    /\ \A dom \in Domains :
          (WaitsFor(dom) /\ dom \in setups) ~>
             (~WaitsFor(dom) /\ hooked # <<>>
                /\ HookDomain(devices, hooked[Len(hooked)]) = dom)

\* process_bluetooth waits for the handler of the sensors
C14_Witness ==
    /\ pc = "ble_wait"
    /\ WaitsFor("sensor")
    /\ "sensor" \notin setups
    /\ hookLog = <<>>

\* the device whose update the step dispatches
DispatchDid == IF pc = "ble_wait" THEN ble.did ELSE inflight.did

\* C15: a device id may have several update handlers; an update dispatched
\* for a device, from a bus message or from a Bluetooth event, is given
\* once to each handler registered for that id so far, in the order of
\* their registration, and to no handler of another id
C15_DispatchOrder ==
    [][(delivered' # delivered /\ delivered' # <<>>) =>
          /\ DispatchDid \in DOMAIN updates
          /\ Len(delivered') = Len(updates[DispatchDid])
          /\ \A i \in 1..Len(delivered') :
                /\ delivered'[i][1] = <<DispatchDid, i>>
                /\ delivered'[i][2] = delivered'[1][2]]_vars

\* a Bluetooth update has gone to the two handlers of its device while
\* the hub has a handler too
C15_Witness ==
    /\ Len(delivered) = 2
    /\ delivered[1][1] = <<"blt.1", 1>>
    /\ delivered[2][1] = <<"blt.1", 2>>
    /\ "lumi.0" \in DOMAIN updates

\* a bus update has gone to the two handlers of the hub
C15_WitnessBus ==
    /\ Len(delivered) = 2
    /\ delivered[1][1] = <<"lumi.0", 1>>
    /\ "blt.1" \in DOMAIN updates

\* the listed devices of a supported model, in the order of dev_list
Supported(db) == SelectSeq(db.dev_list, LAMBDA did : get_device(db.model[did]).found)

\* a retained temperature or humidity is missing: the division raises
BrokenProps(db) ==
    \E i \in 1..Len(Supported(db)) : ~V3Device(db, Supported(db)[i]).ok

\* C16: an unsupported model does not make the database discovery fail;
\* it returns the hub 'lumi.0' first, then one descriptor for each listed
\* device of a supported model, in the order of dev_list, and none for a
\* device of an unsupported model
C16_SkipsUnsupported ==
    v3.stage = "returned" =>
       /\ v3.found = <<>> <=> BrokenProps(v3.db)
       /\ v3.found # <<>> =>
             /\ v3.found[1].did = "lumi.0"
             /\ Len(v3.found) = 1 + Len(Supported(v3.db))
             /\ \A i \in 1..Len(Supported(v3.db)) :
                   /\ v3.found[i + 1].did = Supported(v3.db)[i]
                   /\ v3.found[i + 1].model = v3.db.model[Supported(v3.db)[i]]

\* a device of an unsupported model is listed before a supported one
C16_Witness ==
    /\ v3.stage = "returned"
    /\ Len(v3.db.dev_list) = 2
    /\ ~get_device(v3.db.model[v3.db.dev_list[1]]).found
    /\ Len(v3.found) = 2
    /\ v3.found[2].did = v3.db.dev_list[2]

\* the raw retained values of a listed device, by canonical name
RawRetained(db, did) ==
    RetainParams(get_device(db.model[did]).params, db.prop[did], EmptyDict)

\* C17: the initial value the database discovery records for a property
\* is the value process_message puts in an update for the same name and
\* the same raw value, the strings on, open, off and close included
C17_SameFixups ==
    (v3.stage = "returned" /\ v3.found # <<>>) =>
       \A i \in 2..Len(v3.found) :
          \A k \in DOMAIN v3.found[i].init :
             v3.found[i].init[k] =
                FixValue(k, RawRetained(v3.db, v3.found[i].did)[k])

\* C18: when a dispatched update has an added_device entry, the setup of
\* that one device runs in the handling of the same message, after the
\* update has gone to every subscriber: a device of a supported model is
\* in the registry under its did with its mac prefixed by '0x' when the
\* handling ends, a device of an unsupported model leaves the registry as
\* it was
C18_AddedDevice ==
    [][(HandlesBus /\ result' = "dispatched"
          /\ "added_device" \in DOMAIN PayloadOf(delivered')) =>
          LET device == NewDevices[PayloadOf(delivered')["added_device"].n]
          IN  /\ Len(delivered') = Len(updates[inflight.did])
              /\ IF get_device(device.model).found
                 THEN /\ device.did \in DOMAIN devices'
                      /\ devices'[device.did].did = device.did
                      /\ devices'[device.did].model = device.model
                      /\ devices'[device.did].mac = Prefix0x(device.mac)
                      /\ \A d \in DOMAIN devices \ {device.did} :
                            d \in DOMAIN devices' /\ devices'[d] = devices[d]
                 ELSE devices' = devices]_vars

\* the sensor announced earlier is registered; the announcement of a
\* device of an unsupported model has just been handled
C18_Witness ==
    /\ result = "dispatched"
    /\ delivered # <<>>
    /\ "added_device" \in DOMAIN PayloadOf(delivered)
    /\ PayloadOf(delivered)["added_device"] = Dev(2)
    /\ "lumi.2" \in DOMAIN devices
    /\ devices["lumi.2"].mac = "0x158d0002"
    /\ "lumi.3" \notin DOMAIN devices

\* run() is in its second loop or in a callback of the receive loop
Steady ==
    /\ "lumi.0" \in DOMAIN devices
    /\ \/ pc \in SteadyPcs \cup {"ble_wait", "dead"}
       \/ InSetupOf("loop_forever")

\* an operation of discovery is the last one of the iteration
Discovers(tr) ==
    tr # <<>> /\ tr[Len(tr)] \in {"discover_ok", "discover_fail"}

\* C19: once the hub is registered and run() has entered its second loop
\* no discovery runs again, whatever disconnects, failed reconnects and
\* recoveries follow, and the registry changes only in the handling of a
\* bus message with an added_device entry or of a Bluetooth event
C19_DiscoveryOnlyInBootstrap ==
    /\ [][Steady =>
            /\ Steady'
            /\ pc' # "boot_discover"
            /\ trace' # trace => ~Discovers(trace')]_vars
    /\ [][(Steady /\ devices' # devices) =>
            \/ /\ HandlesBus
               /\ delivered' # <<>>
               /\ "added_device" \in DOMAIN PayloadOf(delivered')
            \/ Handles /\ inflight.topic = "log/bt"
            \/ pc = "ble_wait"]_vars

\* after a lost connection and a recovery through the shell, with a
\* Bluetooth device and an announced sensor in the registry
C19_Witness ==
    /\ pc = "steady"
    /\ trace = <<"reconnect_fail", "probe_ok", "telnet_ok", "enable_mqtt_ok">>
    /\ mqtt = "disconnecting"
    /\ "blt.1" \in DOMAIN devices
    /\ "lumi.2" \in DOMAIN devices

\* C20: a setup hook or an update handler is called for a device only
\* while the device is in the registry: setup_devices and
\* process_bluetooth store the record before their calls, process_message
\* calls no handler for a did that is not registered, and no did ever
\* leaves the registry
C20_CalledWhileRegistered ==
    /\ [][\A j \in 1..Len(hooked') :
             (j > Len(hooked) \/ hooked'[j] # hooked[j])
                => /\ hooked'[j][1] \in DOMAIN devices'
                   /\ devices'[hooked'[j][1]].did = hooked'[j][1]]_vars
    /\ [][(delivered' # delivered /\ delivered' # <<>>) =>
             \A i \in 1..Len(delivered') :
                /\ delivered'[i][1][1] \in DOMAIN devices'
                /\ HandlesBus => delivered'[i][1][1] \in DOMAIN devices]_vars
    /\ [][\A d \in DOMAIN devices : d \in DOMAIN devices']_vars

\* the first event of a Bluetooth device: its record is there for the
\* hook and for the handler
C20_Witness ==
    /\ hooked = << <<"blt.1", "temperature">> >>
    /\ delivered # <<>>
    /\ delivered[1][1][1] = "blt.1"
    /\ "rssi" \notin DOMAIN devices["blt.1"].init

====
